---- MODULE Spec2Model ----
(***************************************************************************)
(* Model of inspect_spacy_model.py: the command line front end (main), the *)
(* model lister (list_available_models) and the inspector                  *)
(* (inspect_spacy_model) with its nested directory printer (print_tree).   *)
(*                                                                         *)
(* Standard output is the sequence `out` of printed lines.  A line is a    *)
(* record [tag, text, num]: tag names the print statement, text carries    *)
(* the interpolated strings (as sequences of one-character or token        *)
(* strings) and num an interpolated number.  Values that the script only   *)
(* copies from the spaCy object for display (version, description, token   *)
(* texts, byte counts) are represented by the tag of their line alone.     *)
(***************************************************************************)
EXTENDS Integers, Sequences, FiniteSets, TLC

VARIABLES
    argv,      \* the command line of the current invocation
    env,       \* the world the script reads: packages, model object, files
    pc,        \* position of the current invocation
    out,       \* lines printed to standard output by the current invocation
    exit,      \* process exit code, NoExit while running
    success,   \* return value of inspect_spacy_model ("none" before it returns)
    loads,     \* arguments of the spacy.load calls made so far, in order
    walks,     \* traversals of the model directory made so far, in order
    prev       \* the previous finished invocation on the same environment

vars == <<argv, env, pc, out, exit, success, loads, walks, prev>>

-----------------------------------------------------------------------------
(* Bounds *)

MaxDir == 2        \* directories of a model tree are numbered 0..MaxDir
MaxTags == 12      \* a tagger has at most MaxTags labels

(* Program constants *)

TagSample == 10        \* labels[:10], len(labels) > 10, len(labels) - 10
DefaultMaxDepth == 3   \* print_tree(..., max_depth=3, ...)
LargestShown == 5      \* large_files[:5]

NoExit == -1

-----------------------------------------------------------------------------
(* Lines *)

Line(tag, text, num) == [tag |-> tag, text |-> text, num |-> num]

Tag(tag) == Line(tag, <<>>, 0)

TagText(tag, text) == Line(tag, text, 0)

Range(s) == {s[i] : i \in 1..Len(s)}

RECURSIVE Flatten(_)
Flatten(ss) == IF ss = <<>> THEN <<>> ELSE Head(ss) \o Flatten(Tail(ss))

-----------------------------------------------------------------------------
(* Names: strings as sequences of characters *)

en_core_web_sm == <<"e","n","_","c","o","r","e","_","w","e","b","_","s","m">>
de_core_news_lg == <<"d","e","_","c","o","r","e","_","n","e","w","s","_","l","g">>
en_tools == <<"e","n","_","t","o","o","l","s">>
spacy == <<"s","p","a","c","y">>

DefaultModel == en_core_web_sm

NoModel == <<>>

Digits == <<"0","1","2","3","4","5","6","7","8","9">>

Upper == <<"A","B","C","D","E","F","G","H","I","J","K","L","M",
           "N","O","P","Q","R","S","T","U","V","W","X","Y","Z">>

Lower == <<"a","b","c","d","e","f","g","h","i","j","k","l","m",
           "n","o","p","q","r","s","t","u","v","w","x","y","z">>

IndexIn(seq, c) == CHOOSE i \in 1..Len(seq) : seq[i] = c

\* ord(c): the code point of a character of a package name
Ord(c) ==
    IF c \in Range(Lower) THEN 96 + IndexIn(Lower, c)
    ELSE IF c \in Range(Upper) THEN 64 + IndexIn(Upper, c)
    ELSE IF c \in Range(Digits) THEN 47 + IndexIn(Digits, c)
    ELSE CASE c = "_" -> 95
           [] c = "-" -> 45
           [] c = "." -> 46

\* Python's str < str on these names
StrLess(s, t) ==
    \E i \in 1..(Len(s) + 1) :
        /\ \A j \in 1..(i - 1) : j <= Len(t) /\ s[j] = t[j]
        /\ \/ i = Len(s) + 1 /\ Len(t) > Len(s)
           \/ i <= Len(s) /\ i <= Len(t) /\ Ord(s[i]) < Ord(t[i])

\* Python's `sub in s`
Contains(sub, s) ==
    \E i \in 1..(Len(s) - Len(sub) + 1) : SubSeq(s, i, i + Len(sub) - 1) = sub

\* sorted(S) for a set of names
RECURSIVE SortedNames(_)
SortedNames(S) ==
    IF S = {} THEN <<>>
    ELSE LET m == CHOOSE x \in S : \A y \in S \ {x} : StrLess(x, y)
         IN <<m>> \o SortedNames(S \ {m})

-----------------------------------------------------------------------------
(* Installed packages and spacy.load *)

Universe == {en_core_web_sm, de_core_news_lg, en_tools, spacy}

ModelNames == {en_core_web_sm, de_core_news_lg}

Statuses == {"absent", "loadable", "unloadable"}

LangMarks == {<<"e","n","_">>, <<"d","e","_">>, <<"f","r","_">>, <<"e","s","_">>,
              <<"p","t","_">>, <<"i","t","_">>, <<"n","l","_">>, <<"z","h","_">>}

SizeMarks == {<<"_","s","m">>, <<"_","m","d">>, <<"_","l","g">>, <<"_","t","r","f">>}

\* the characters pkg_resources.safe_name keeps: [A-Za-z0-9.]
IsSafe(c) == c \in Range(Lower) \cup Range(Upper) \cup Range(Digits) \cup {"."}

\* pkg_resources.safe_name(name), which Distribution applies to its
\* project_name: every run of other characters becomes one "-"
RECURSIVE SafeName(_)
SafeName(s) ==
    IF s = <<>> THEN <<>>
    ELSE IF IsSafe(Head(s)) THEN <<Head(s)>> \o SafeName(Tail(s))
    ELSE IF Tail(s) # <<>> /\ ~IsSafe(Head(Tail(s))) THEN SafeName(Tail(s))
    ELSE <<"-">> \o SafeName(Tail(s))

\* [d.project_name for d in pkg_resources.working_set]
InstalledPackages(e) == {SafeName(p) : p \in {q \in Universe : e.status[q] # "absent"}}

\* the filter of list_available_models
IsSpacyModel(package) ==
    /\ \E lang \in LangMarks : Contains(lang, package)
    /\ \E size \in SizeMarks : Contains(size, package)

SpacyModels(e) == {p \in InstalledPackages(e) : IsSpacyModel(p)}

\* spacy.load(name): "ok", or "OSError" when the model cannot be loaded
SpacyLoad(e, name) ==
    IF name \in Universe /\ e.status[name] = "loadable" THEN "ok" ELSE "OSError"

-----------------------------------------------------------------------------
(* list_available_models *)

ListModelLine(e, model) ==
    IF SpacyLoad(e, model) = "ok"
    THEN TagText("list_ok", model)
    ELSE TagText("list_issue", model)

\* for model in sorted(spacy_models): try ... except OSError ...
ListModelLines(e, models) ==
    [i \in 1..Len(models) |-> ListModelLine(e, models[i])]

NoModelsLinesBare(e) == <<Tag("none_found")>>

NoModelsLines(e) == <<Tag("none_found"), TagText("install_hint", DefaultModel)>>

\* result of list_available_models: printed lines and spacy.load calls
ListAvailableModels(e) ==
    IF ~e.importable
    THEN [lines |-> <<Tag("searching"), Tag("cannot_check")>>, loads |-> <<>>]
    ELSE LET spacy_models == SortedNames(SpacyModels(e))
         IN IF spacy_models # <<>>
            THEN [lines |-> <<Tag("searching"), Tag("found_hdr")>>
                              \o ListModelLines(e, spacy_models),
                  loads |-> spacy_models]
            ELSE [lines |-> <<Tag("searching")>> \o NoModelsLines(e),
                  loads |-> <<>>]

-----------------------------------------------------------------------------
(* The model directory *)

Dirs == 0..MaxDir

Names == <<"a", "b">>

Kinds == {"none", "file", "child", "link", "barred"}

NoDir == -1

\* item.is_dir(): a subdirectory, or a symbolic link to the model directory
IsDir(kind) == kind \in {"child", "link"}

\* item.is_dir() and f.is_file() raise PermissionError on the entry: its
\* target cannot be examined (a symbolic link into a directory without search
\* permission)
Raises(kind) == kind = "barred"

\* the directory an entry of directory d leads to
Target(d, kind) == IF kind = "child" THEN d + 1 ELSE 0

\* sorted(path.iterdir()): positions in Names of the entries of d
Items(fs, d) ==
    SelectSeq([i \in 1..Len(Names) |-> i], LAMBDA i : fs.entries[<<d, i>>] # "none")

\* the iterations of `for i, item in enumerate(items)` that start: up to and
\* including the first one in which item.is_dir() raises
Iterations(fs, path, items) ==
    {i \in 1..Len(items) :
        \A j \in 1..(i - 1) : ~Raises(fs.entries[<<path, items[j]>>])}

BranchLast == "+-- "
BranchMid == "|-- "
PadLast == "    "
PadMid == "|   "
PermissionDenied == "[Permission Denied]"

\* except PermissionError: print(f"{prefix}... [Permission Denied]")
DeniedLine(prefix) == TagText("tree", prefix \o <<BranchLast, PermissionDenied>>)

RECURSIVE PrintTreeDeep(_, _, _, _, _)
PrintTreeDeep(fs, path, prefix, max_depth, current_depth) ==
    IF current_depth > max_depth THEN <<>>
    ELSE IF path = fs.denied
    THEN <<DeniedLine(prefix)>>
    ELSE LET items == Items(fs, path)
             Entry(i) ==
                 LET kind == fs.entries[<<path, items[i]>>]
                     is_last == i = Len(items)
                 IN <<TagText("tree", prefix \o <<IF is_last THEN BranchLast ELSE BranchMid,
                                                  Names[items[i]]>>)>>
                    \o (IF Raises(kind) THEN <<DeniedLine(prefix)>>
                        ELSE IF IsDir(kind) /\ current_depth < max_depth
                        THEN PrintTreeDeep(fs, Target(path, kind),
                                       prefix \o <<IF is_last THEN PadLast ELSE PadMid>>,
                                       max_depth, current_depth + 1)
                        ELSE <<>>)
         IN Flatten([i \in 1..Len(items) |->
                         IF i \in Iterations(fs, path, items) THEN Entry(i) ELSE <<>>])

\* print_tree(path, prefix, max_depth, current_depth): the lines it prints
RECURSIVE PrintTree(_, _, _, _, _)
PrintTree(fs, path, prefix, max_depth, current_depth) ==
    IF current_depth >= max_depth THEN <<>>
    ELSE IF path = fs.denied
    THEN \* path.iterdir() raises PermissionError
         <<DeniedLine(prefix)>>
    ELSE LET items == Items(fs, path)
             Entry(i) ==
                 LET kind == fs.entries[<<path, items[i]>>]
                     is_last == i = Len(items)
                 IN <<TagText("tree", prefix \o <<IF is_last THEN BranchLast ELSE BranchMid,
                                                  Names[items[i]]>>)>>
                    \o (IF Raises(kind)
                        THEN \* item.is_dir() raises PermissionError after the
                             \* item's line is printed; the except clause ends
                             \* the loop
                             <<DeniedLine(prefix)>>
                        ELSE IF IsDir(kind) /\ current_depth < max_depth - 1
                        THEN PrintTree(fs, Target(path, kind),
                                       prefix \o <<IF is_last THEN PadLast ELSE PadMid>>,
                                       max_depth, current_depth + 1)
                        ELSE <<>>)
         IN Flatten([i \in 1..Len(items) |->
                         IF i \in Iterations(fs, path, items) THEN Entry(i) ELSE <<>>])

\* entries model_path.rglob("*") yields: it descends into subdirectories it
\* can open and does not follow links
RECURSIVE Rglob(_, _)
Rglob(fs, d) ==
    IF d = fs.denied THEN <<>>
    ELSE LET items == Items(fs, d)
             Entry(i) ==
                 LET kind == fs.entries[<<d, items[i]>>]
                 IN <<kind>> \o (IF kind = "child" THEN Rglob(fs, d + 1) ELSE <<>>)
         IN Flatten([i \in 1..Len(items) |-> Entry(i)])

Min(a, b) == IF a < b THEN a ELSE b

-----------------------------------------------------------------------------
(* inspect_spacy_model: the report sections *)

HasPipe(nlp, name) == name \in Range(nlp.pipeline)

HeaderLines(model_name) == <<TagText("inspecting", model_name)>>

LoadSuccessLinesSilent == <<>>

LoadSuccessLines == <<Tag("loaded")>>

LoadFailureLinesAnonymous(model_name) ==
    <<Tag("not_found"), TagText("install_hint", model_name), Tag("use_list")>>

LoadFailureLines(model_name) ==
    <<TagText("not_found", model_name), TagText("install_hint", model_name),
      Tag("use_list")>>

LocationLines == <<Tag("location_hdr"), Tag("location")>>

MetadataLinesReplacing(verbose) ==
    <<Tag("metadata_hdr"), Tag("meta_name"), Tag("meta_version"),
      Tag("meta_description"), Tag("meta_lang"), Tag("meta_pipeline")>>
    \o (IF verbose
        THEN <<Tag("meta_license"), Tag("meta_author"), Tag("meta_url")>>
        ELSE <<Tag("meta_size")>>)

MetadataLines(verbose) ==
    <<Tag("metadata_hdr"), Tag("meta_name"), Tag("meta_version"),
      Tag("meta_description"), Tag("meta_lang"), Tag("meta_pipeline"),
      Tag("meta_size")>>
    \o (IF verbose
        THEN <<Tag("meta_license"), Tag("meta_author"), Tag("meta_url")>>
        ELSE <<>>)

PipelineLines(nlp) ==
    <<Tag("pipeline_hdr")>>
    \o [i \in 1..Len(nlp.pipeline) |-> TagText("component", <<nlp.pipeline[i]>>)]

VocabularyLines(nlp) ==
    <<Tag("vocabulary_hdr"), Tag("vocab_total")>>
    \o (IF nlp.vectors
        THEN <<Tag("vector_dims"), Tag("vectors_available")>>
        ELSE <<Tag("no_vectors")>>)

EntityTypeLines(nlp) ==
    IF HasPipe(nlp, "ner")
    THEN <<Tag("ner_hdr")>>
         \o [i \in 1..Len(nlp.ner_labels) |-> Line("ner_label", <<>>, nlp.ner_labels[i])]
    ELSE <<>>

PosTagLinesOffByOne(nlp) ==
    IF HasPipe(nlp, "tagger")
    THEN LET labels == nlp.tag_labels
             pos_tags == SubSeq(labels, 1, Min(TagSample, Len(labels)))
         IN <<Tag("pos_hdr")>>
            \o [i \in 1..Len(pos_tags) |-> Line("pos_tag", <<>>, pos_tags[i])]
            \o (IF Len(labels) >= TagSample
                THEN <<Line("pos_more", <<>>, Len(labels) - TagSample)>>
                ELSE <<>>)
    ELSE <<>>

PosTagLines(nlp) ==
    IF HasPipe(nlp, "tagger")
    THEN LET labels == nlp.tag_labels
             pos_tags == SubSeq(labels, 1, Min(TagSample, Len(labels)))
         IN <<Tag("pos_hdr")>>
            \o [i \in 1..Len(pos_tags) |-> Line("pos_tag", <<>>, pos_tags[i])]
            \o (IF Len(labels) > TagSample
                THEN <<Line("pos_more", <<>>, Len(labels) - TagSample)>>
                ELSE <<>>)
    ELSE <<>>

ModelTestLines(nlp, verbose) ==
    <<Tag("test_hdr"), Tag("test_input"), Tag("test_tokens")>>
    \o (IF nlp.ents THEN <<Tag("test_entities")>> ELSE <<Tag("test_no_entities")>>)
    \o (IF verbose THEN <<Tag("test_pos"), Tag("test_lemmas")>> ELSE <<>>)

\* print_tree lets an exception out: os.stat fails with an OSError that is
\* no PermissionError (an I/O error), so item.is_dir() raises it on the
\* first entry of the model directory, and `except PermissionError` does
\* not catch it
WalkEscapes(e) == e.stat_fails /\ e.fs.denied # 0 /\ Items(e.fs, 0) # <<>>

FileStructureAlways(e, verbose) ==
    [lines |-> <<Tag("tree_hdr")>> \o PrintTree(e.fs, 0, <<>>, DefaultMaxDepth, 0),
     walks |-> <<"tree">>,
     raised |-> FALSE]

\* if verbose: print header, print_tree(model_path)
FileStructure(e, verbose) ==
    IF ~verbose
    THEN [lines |-> <<>>, walks |-> <<>>, raised |-> FALSE]
    ELSE IF WalkEscapes(e)
    THEN \* the first entry's line is printed, then item.is_dir() raises out
         \* of print_tree and of inspect_spacy_model
         [lines |-> <<Tag("tree_hdr"),
                      Head(PrintTree(e.fs, 0, <<>>, DefaultMaxDepth, 0))>>,
          walks |-> <<"tree">>,
          raised |-> TRUE]
    ELSE [lines |-> <<Tag("tree_hdr")>> \o PrintTree(e.fs, 0, <<>>, DefaultMaxDepth, 0),
          walks |-> <<"tree">>,
          raised |-> FALSE]

\* f.is_file() / f.stat() raises on an entry the size walk visits: the I/O
\* error on any entry, PermissionError on one that cannot be examined
SizeRaises(e) ==
    \/ e.stat_fails /\ Rglob(e.fs, 0) # <<>>
    \/ \E i \in 1..Len(Rglob(e.fs, 0)) : Raises(Rglob(e.fs, 0)[i])

NumFiles(e) == Len(SelectSeq(Rglob(e.fs, 0), LAMBDA k : k = "file"))

StorageUncaught(e, verbose) ==
    IF SizeRaises(e)
    THEN [lines |-> <<Tag("storage_hdr")>>, walks |-> <<"size">>, raised |-> TRUE]
    ELSE [lines |-> <<Tag("storage_hdr"), Tag("total_size")>>
                    \o (IF verbose
                        THEN <<Tag("largest_hdr")>>
                             \o [i \in 1..Min(LargestShown, NumFiles(e)) |->
                                     Line("largest_file", <<>>, i)]
                        ELSE <<>>),
          walks |-> <<"size">> \o (IF verbose THEN <<"largest">> ELSE <<>>),
          raised |-> FALSE]

\* the storage section: its lines, its walks of the model directory and
\* whether an exception leaves the section
Storage(e, verbose) ==
    IF SizeRaises(e)
    THEN [lines |-> <<Tag("storage_hdr"), Tag("size_error")>>,
          walks |-> <<"size">>,
          raised |-> FALSE]
    ELSE [lines |-> <<Tag("storage_hdr"), Tag("total_size")>>
                    \o (IF verbose
                        THEN <<Tag("largest_hdr")>>
                             \o [i \in 1..Min(LargestShown, NumFiles(e)) |->
                                     Line("largest_file", <<>>, i)]
                        ELSE <<>>),
          walks |-> <<"size">> \o (IF verbose THEN <<"largest">> ELSE <<>>),
          raised |-> FALSE]

-----------------------------------------------------------------------------
(* main *)

\* parser.parse_args(): the positional model defaults to en_core_web_sm
ParseArgs(a) ==
    [model |-> IF a.model = NoModel THEN DefaultModel ELSE a.model,
     list |-> a.list,
     verbose |-> a.verbose]

Args == ParseArgs(argv)

\* if not success: sys.exit(1); otherwise main returns
ExitCode(ok) == IF ok THEN 0 ELSE 1

-----------------------------------------------------------------------------
(* Inputs *)

Argvs == [model : ModelNames \cup {NoModel}, list : BOOLEAN, verbose : BOOLEAN]

\* tagger.labels of a model with n labels
TagLabels(n) == [i \in 1..n |-> n + 1 - i]

Pipelines == {<<>>, <<"tagger">>, <<"ner">>, <<"tagger", "ner">>}

Nlps(tagCounts) ==
    {[pipeline |-> p, tag_labels |-> t, ner_labels |-> n, vectors |-> v, ents |-> x] :
        p \in Pipelines,
        t \in {TagLabels(k) : k \in tagCounts} \cup {<<>>},
        n \in {<<>>, <<1, 2>>},
        v \in BOOLEAN,
        x \in BOOLEAN}

\* a model object, with the labels of absent components left empty
NlpsOf(tagCounts) ==
    {nlp \in Nlps(tagCounts) :
        /\ ~HasPipe(nlp, "tagger") => nlp.tag_labels = <<>>
        /\ ~HasPipe(nlp, "ner") => nlp.ner_labels = <<>>
        /\ HasPipe(nlp, "ner") => nlp.ner_labels # <<>>}

DefaultNlp ==
    [pipeline |-> <<"tagger", "ner">>, tag_labels |-> TagLabels(TagSample + 1),
     ner_labels |-> <<1, 2>>, vectors |-> TRUE, ents |-> TRUE]

\* directory d is part of the tree: the root, or a subdirectory of a part
RECURSIVE Present(_, _)
Present(entries, d) ==
    \/ d = 0
    \/ /\ Present(entries, d - 1)
       /\ \E i \in 1..Len(Names) : entries[<<d - 1, i>>] = "child"

\* model directories whose subdirectories nest at most `depth` deep
Trees(depth) ==
    {fs \in [entries : [Dirs \X (1..Len(Names)) -> Kinds], denied : Dirs \cup {NoDir}] :
        /\ \A d \in Dirs, i \in 1..Len(Names) :
              /\ fs.entries[<<d, i>>] = "child" => d < depth
              /\ fs.entries[<<d, i>>] # "none" => Present(fs.entries, d)
        /\ fs.denied # NoDir => Present(fs.entries, fs.denied)}

EmptyTree ==
    [entries |-> [x \in Dirs \X (1..Len(Names)) |-> "none"], denied |-> NoDir]

StatusMaps ==
    {st \in [Universe -> Statuses] : \A p \in Universe \ ModelNames : st[p] # "loadable"}

\* the environments that differ in what an invocation with command line a
\* reads.  importable: pkg_resources can be imported; status: the installed
\* packages and whether spacy.load succeeds on them; nlp: the loaded model
\* object; fs: the model directory; stat_fails: os.stat fails on the entries
\* of the model directory with an OSError that is no PermissionError
Envs(a, nlps, trees, fails) ==
    IF a.list
    THEN {[importable |-> i, status |-> st, nlp |-> DefaultNlp, fs |-> EmptyTree,
           stat_fails |-> FALSE] : i \in BOOLEAN, st \in StatusMaps}
    ELSE {[importable |-> TRUE, status |-> st, nlp |-> DefaultNlp, fs |-> EmptyTree,
           stat_fails |-> FALSE] :
              st \in {s \in StatusMaps :
                         /\ s[ParseArgs(a).model] # "loadable"
                         /\ \A p \in Universe \ {ParseArgs(a).model} : s[p] = "absent"}}
         \cup
         {[importable |-> TRUE, status |-> st, nlp |-> n, fs |-> t, stat_fails |-> f] :
              st \in {s \in StatusMaps :
                         /\ s[ParseArgs(a).model] = "loadable"
                         /\ \A p \in Universe \ {ParseArgs(a).model} : s[p] = "absent"},
              n \in nlps, t \in trees, f \in fails}

NoPrev == [ran |-> FALSE, argv |-> [model |-> NoModel, list |-> FALSE, verbose |-> FALSE],
           out |-> <<>>, exit |-> NoExit]

InitOver(argvs, nlps, trees, fails) ==
    /\ argv \in argvs
    /\ env \in Envs(argv, nlps, trees, fails)
    /\ pc = "main"
    /\ out = <<>>
    /\ exit = NoExit
    /\ success = "none"
    /\ loads = <<>>
    /\ walks = <<>>
    /\ prev = NoPrev

-----------------------------------------------------------------------------
(* Steps of one invocation *)

\* args = parser.parse_args(); if args.list: ... else inspect_spacy_model(...)
Main ==
    /\ pc = "main"
    /\ pc' = IF Args.list THEN "list" ELSE "load"
    /\ out' = IF Args.list THEN out ELSE out \o HeaderLines(Args.model)
    /\ UNCHANGED <<argv, env, exit, success, loads, walks, prev>>

\* list_available_models(); return
List ==
    /\ pc = "list"
    /\ LET r == ListAvailableModels(env)
       IN /\ out' = out \o r.lines
          /\ loads' = loads \o r.loads
    /\ pc' = "done"
    /\ exit' = 0
    /\ UNCHANGED <<argv, env, success, walks, prev>>

\* try: nlp = spacy.load(model_name) ... except OSError: ... return False
Load ==
    /\ pc = "load"
    /\ loads' = Append(loads, Args.model)
    /\ IF SpacyLoad(env, Args.model) = "ok"
       THEN /\ out' = out \o LoadSuccessLines
            /\ pc' = "location"
            /\ UNCHANGED success
       ELSE /\ out' = out \o LoadFailureLines(Args.model)
            /\ pc' = "returned"
            /\ success' = "False"
    /\ UNCHANGED <<argv, env, exit, walks, prev>>

\* print Model Location
Location ==
    /\ pc = "location"
    /\ out' = out \o LocationLines
    /\ pc' = "metadata"
    /\ UNCHANGED <<argv, env, exit, success, loads, walks, prev>>

\* print Model Metadata
Metadata ==
    /\ pc = "metadata"
    /\ out' = out \o MetadataLines(Args.verbose)
    /\ pc' = "pipeline"
    /\ UNCHANGED <<argv, env, exit, success, loads, walks, prev>>

\* print Pipeline Components
Pipeline ==
    /\ pc = "pipeline"
    /\ out' = out \o PipelineLines(env.nlp)
    /\ pc' = "vocabulary"
    /\ UNCHANGED <<argv, env, exit, success, loads, walks, prev>>

\* print Vocabulary
Vocabulary ==
    /\ pc = "vocabulary"
    /\ out' = out \o VocabularyLines(env.nlp)
    /\ pc' = "entities"
    /\ UNCHANGED <<argv, env, exit, success, loads, walks, prev>>

\* if nlp.has_pipe("ner"): print Named Entity Types
EntityTypes ==
    /\ pc = "entities"
    /\ out' = out \o EntityTypeLines(env.nlp)
    /\ pc' = "pos"
    /\ UNCHANGED <<argv, env, exit, success, loads, walks, prev>>

\* if nlp.has_pipe("tagger"): print POS Tags (sample)
PosTags ==
    /\ pc = "pos"
    /\ out' = out \o PosTagLines(env.nlp)
    /\ pc' = "test"
    /\ UNCHANGED <<argv, env, exit, success, loads, walks, prev>>

\* print Model Test
ModelTest ==
    /\ pc = "test"
    /\ out' = out \o ModelTestLines(env.nlp, Args.verbose)
    /\ pc' = "files"
    /\ UNCHANGED <<argv, env, exit, success, loads, walks, prev>>

\* a section that walks the model directory; an exception that leaves it
\* ends the process with a traceback and exit code 1
Walk(at, r, next) ==
    /\ pc = at
    /\ out' = out \o r.lines
    /\ walks' = walks \o r.walks
    /\ IF r.raised
       THEN pc' = "done" /\ exit' = 1
       ELSE pc' = next /\ UNCHANGED exit
    /\ UNCHANGED <<argv, env, loads, prev>>

Files ==
    /\ Walk("files", FileStructure(env, Args.verbose), "storage")
    /\ UNCHANGED success

StorageInfo ==
    /\ Walk("storage", Storage(env, Args.verbose), "returned")
    /\ success' = IF Storage(env, Args.verbose).raised THEN success ELSE "True"

\* success = inspect_spacy_model(...); if not success: sys.exit(1)
Exit ==
    /\ pc = "returned"
    /\ exit' = ExitCode(success = "True")
    /\ pc' = "done"
    /\ UNCHANGED <<argv, env, out, success, loads, walks, prev>>

\* the tool is run a second time on the same environment, with the other
\* verbosity
Reinvoke ==
    /\ pc = "done"
    /\ ~prev.ran
    /\ prev' = [ran |-> TRUE, argv |-> argv, out |-> out, exit |-> exit]
    /\ argv' = [argv EXCEPT !.verbose = ~argv.verbose]
    /\ pc' = "main"
    /\ out' = <<>>
    /\ exit' = NoExit
    /\ success' = "none"
    /\ loads' = <<>>
    /\ walks' = <<>>
    /\ UNCHANGED env

\* one invocation
Run ==
    \/ Main
    \/ List
    \/ Load
    \/ Location
    \/ Metadata
    \/ Pipeline
    \/ Vocabulary
    \/ EntityTypes
    \/ PosTags
    \/ ModelTest
    \/ Files
    \/ StorageInfo
    \/ Exit

\* an invocation, followed by a second one with the other verbosity
Next == Run \/ Reinvoke

NarrowTags == {0, TagSample, TagSample + 1}

\* every command line, over the flat model directories; every failure these
\* environments hold is one the script handles
Init == InitOver(Argvs, NlpsOf(NarrowTags), Trees(0), {FALSE})

Spec == Init /\ [][Next]_vars

VerboseArgvs == {a \in Argvs : a.model = NoModel /\ a.verbose}

QuietArgvs == {a \in Argvs : a.model = NoModel /\ ~a.verbose}

\* one invocation with the default model object: a verbose one over every
\* model directory, and one without --verbose over the flat ones when
\* os.stat fails with an I/O error
InitTree ==
    \/ InitOver(VerboseArgvs, {DefaultNlp}, Trees(MaxDir), {FALSE})
    \/ InitOver(QuietArgvs, {DefaultNlp}, Trees(0), {TRUE})

SpecTree == InitTree /\ [][Run]_vars

\* one invocation, over every tagger size, with a flat model directory
InitTags ==
    InitOver({a \in Argvs : a.model = NoModel}, NlpsOf(0..MaxTags), Trees(0), {FALSE})

SpecTags == InitTags /\ [][Run]_vars

\* one invocation of every command line with the default model object, over
\* the flat model directories, with and without the I/O error of os.stat
InitFault == InitOver(Argvs, {DefaultNlp}, Trees(0), BOOLEAN)

SpecFault == InitFault /\ [][Run]_vars

-----------------------------------------------------------------------------
(* Vocabulary of the properties *)

Done == pc = "done"

Inspected == Done /\ ~Args.list

\* the requested model is installed and loads
Loadable == env.status[Args.model] = "loadable"

HasLine(lines, tag) == \E i \in 1..Len(lines) : lines[i].tag = tag

Before(lines, t1, t2) ==
    \E i, j \in 1..Len(lines) : i < j /\ lines[i].tag = t1 /\ lines[j].tag = t2

TagsOf(lines) == [i \in 1..Len(lines) |-> lines[i].tag]

\* s can be obtained from t by deleting lines
RECURSIVE IsSubseq(_, _)
IsSubseq(s, t) ==
    IF s = <<>> THEN TRUE
    ELSE IF t = <<>> THEN FALSE
    ELSE IF Head(s) = Head(t) THEN IsSubseq(Tail(s), Tail(t))
    ELSE IsSubseq(s, Tail(t))

IsPrefix(s, t) == Len(s) <= Len(t) /\ SubSeq(t, 1, Len(s)) = s

\* the lines of the report sections that follow a successful load
ReportTags ==
    {"location_hdr", "location", "metadata_hdr", "meta_name", "meta_version",
     "meta_description", "meta_lang", "meta_pipeline", "meta_size", "meta_license",
     "meta_author", "meta_url", "pipeline_hdr", "component", "vocabulary_hdr",
     "vocab_total", "vector_dims", "vectors_available", "no_vectors", "ner_hdr",
     "ner_label", "pos_hdr", "pos_tag", "pos_more", "test_hdr", "test_input",
     "test_tokens", "test_entities", "test_no_entities", "test_pos", "test_lemmas",
     "tree_hdr", "tree", "storage_hdr", "total_size", "size_error", "largest_hdr",
     "largest_file"}

TreeLines == SelectSeq(out, LAMBDA l : l.tag = "tree")

\* paths below the model directory as sequences of positions in Names;
\* a final MarkerPos stands for the permission-denied marker of the directory
\* before it, which follows whatever that directory printed
MarkerPos == Len(Names) + 1

PathsUpTo(k) == UNION {[1..n -> 1..MarkerPos] : n \in 1..k}

Front(p) == SubSeq(p, 1, Len(p) - 1)

Last(p) == p[Len(p)]

\* the directory path q leads to
RECURSIVE DirOf(_, _)
DirOf(fs, q) ==
    IF q = <<>> THEN 0
    ELSE Target(DirOf(fs, Front(q)), fs.entries[<<DirOf(fs, Front(q)), Last(q)>>])

KindOf(fs, p) == fs.entries[<<DirOf(fs, Front(p)), Last(p)>>]

\* p names an entry of the tree
RECURSIVE Exists(_, _)
Exists(fs, p) ==
    /\ \A k \in 1..Len(p) : p[k] # MarkerPos
    /\ Len(p) > 1 => (Exists(fs, Front(p)) /\ IsDir(KindOf(fs, Front(p))))
    /\ KindOf(fs, p) # "none"

\* the walk prints entry p: at every directory on the way it listed the
\* directory, and no entry before the one it took raised PermissionError
Readable(fs, p) ==
    \A k \in 1..Len(p) :
        LET d == DirOf(fs, SubSeq(p, 1, k - 1))
        IN /\ d # fs.denied
           /\ \A i \in 1..(p[k] - 1) : ~Raises(fs.entries[<<d, i>>])

\* p is the marker of a directory in which PermissionError was raised: when
\* listing it, or when examining one of its entries
IsMarker(fs, p) ==
    /\ Last(p) = MarkerPos
    /\ Front(p) # <<>> =>
           /\ Exists(fs, Front(p))
           /\ IsDir(KindOf(fs, Front(p)))
           /\ Readable(fs, Front(p))
    /\ \/ DirOf(fs, Front(p)) = fs.denied
       \/ \E i \in 1..Len(Names) : Raises(fs.entries[<<DirOf(fs, Front(p)), i>>])

PathLess(p, q) ==
    \E i \in 1..(Len(p) + 1) :
        /\ \A j \in 1..(i - 1) : j <= Len(q) /\ p[j] = q[j]
        /\ \/ i = Len(p) + 1 /\ Len(q) > Len(p)
           \/ i <= Len(p) /\ i <= Len(q) /\ p[i] < q[i]

\* depth-first order, the entries of a directory by name
RECURSIVE SortedPaths(_)
SortedPaths(S) ==
    IF S = {} THEN <<>>
    ELSE LET m == CHOOSE x \in S : \A y \in S \ {x} : PathLess(x, y)
         IN <<m>> \o SortedPaths(S \ {m})

IsLastEntry(fs, p) ==
    \/ Last(p) = MarkerPos
    \/ \A i \in (Last(p) + 1)..Len(Names) : fs.entries[<<DirOf(fs, Front(p)), i>>] = "none"

\* the line of path p: a pad for every ancestor, its branch and its name
LineOf(fs, p) ==
    TagText("tree",
            [j \in 1..(Len(p) - 1) |->
                 IF IsLastEntry(fs, SubSeq(p, 1, j)) THEN PadLast ELSE PadMid]
            \o <<IF IsLastEntry(fs, p) THEN BranchLast ELSE BranchMid,
                 IF Last(p) = MarkerPos THEN PermissionDenied ELSE Names[Last(p)]>>)

LinesOf(fs, S) == LET sp == SortedPaths(S) IN [i \in 1..Len(sp) |-> LineOf(fs, sp[i])]

-----------------------------------------------------------------------------
(* C1 *)

\* C1: a finished invocation has exit code 1 exactly when it was asked to
\* inspect (no --list) a model whose load fails, and exit code 0 otherwise:
\* nothing else makes the exit code non-zero; a running invocation has no
\* exit code.  The script breaks it: a verbose inspection of a model that
\* loads ends with exit code 1 when an exception other than PermissionError
\* leaves print_tree.
C1_ExitCode ==
    /\ exit \in {NoExit, 0, 1}
    /\ (exit = NoExit) <=> ~Done
    /\ Done => ((exit = 1) <=> (~Args.list /\ ~Loadable))

(* C2 *)

\* C2: inspecting a model that does not load prints the not-found message
\* and the install hint, both naming the model, returns False, exits with
\* code 1 and prints no line of a later report section.
C2_NotInstalled ==
    (Inspected /\ ~Loadable) =>
        /\ \E i \in 1..Len(out) : out[i] = TagText("not_found", Args.model)
        /\ \E i \in 1..Len(out) : out[i] = TagText("install_hint", Args.model)
        /\ Before(out, "not_found", "install_hint")
        /\ success = "False"
        /\ exit = 1
        /\ \A i \in 1..Len(out) : out[i].tag \notin ReportTags
        /\ ~HasLine(out, "loaded")
        /\ walks = <<>>

C2_Witness ==
    /\ Inspected /\ ~Loadable
    /\ Args.model = de_core_news_lg
    /\ env.status[de_core_news_lg] = "absent"

(* C3 *)

IsDenied(line) ==
    /\ line.tag = "tree"
    /\ line.text[Len(line.text)] = PermissionDenied

\* C3: in a successful inspection a permission error in the file-structure
\* walk is printed inline and the storage section still follows it; an
\* exception in the size computation is printed inline after the storage
\* header; either way inspect_spacy_model returns True and the exit code is 0.
C3_SecondaryFailures ==
    (Inspected /\ Loadable) =>
        /\ success = "True"
        /\ exit = 0
        /\ (Args.verbose /\ \E p \in PathsUpTo(3) : IsMarker(env.fs, p)) =>
               \E i \in 1..Len(out) : IsDenied(out[i])
        /\ \A i \in 1..Len(out) : IsDenied(out[i]) =>
               \E j \in (i + 1)..Len(out) : out[j].tag = "storage_hdr"
        /\ SizeRaises(env) =>
               /\ Before(out, "storage_hdr", "size_error")
               /\ out[Len(out)].tag = "size_error"
        /\ HasLine(out, "storage_hdr")
        /\ HasLine(out, "size_error") \/ HasLine(out, "total_size")

C3_Witness ==
    /\ Inspected /\ Loadable
    /\ \E i \in 1..Len(out) : IsDenied(out[i]) /\ Len(out[i].text) > 2
    /\ HasLine(out, "size_error")
    /\ exit = 0

(* C4 *)

NoneMatches == \A p \in InstalledPackages(env) : ~IsSpacyModel(p)

NotFoundReported ==
    /\ Before(out, "none_found", "install_hint")
    /\ loads = <<>>
    /\ exit = 0

\* C5 as stated: --list with no installed package matching the filter
\* prints the not-found message with the install hint, loads nothing and
\* exits 0.
C5_Original == (Done /\ Args.list /\ NoneMatches) => NotFoundReported

\* C5: the same, when pkg_resources can be imported; when it cannot, the
\* tool prints that it could not check the installed packages, loads
\* nothing and exits 0.
C5_NoneFound ==
    (Done /\ Args.list /\ NoneMatches) =>
        /\ env.importable => NotFoundReported
        /\ ~env.importable =>
               /\ HasLine(out, "cannot_check") /\ ~HasLine(out, "none_found")
               /\ loads = <<>> /\ exit = 0

\* the not-found message with packages installed, a model package among
\* them: the filter reads project names, in which "_" has become "-"
C5_Witness ==
    /\ Done /\ Args.list /\ NoneMatches /\ env.importable
    /\ env.status[en_tools] # "absent"
    /\ env.status[en_core_web_sm] = "loadable"
    /\ SafeName(en_core_web_sm) \in InstalledPackages(env)
    /\ NotFoundReported

(* C6 *)

SectionOrder ==
    <<"loaded", "location_hdr", "metadata_hdr", "pipeline_hdr", "vocabulary_hdr",
      "test_hdr", "storage_hdr">>

C8_ListOnly ==
    (Done /\ Args.list) =>
        /\ exit = 0
        /\ success = "none"
        /\ ~HasLine(out, "inspecting")
        /\ \A i \in 1..Len(out) : out[i].tag \notin ReportTags \cup {"loaded", "not_found"}
        /\ walks = <<>>
        /\ env.importable =>
               /\ Range(loads) = {p \in Universe : env.status[p] # "absent" /\ IsSpacyModel(p)}
               /\ \A p \in Range(loads) :
                      \E i \in 1..Len(out) :
                          out[i] = TagText(IF env.status[p] = "loadable"
                                           THEN "list_ok" ELSE "list_issue", p)
        /\ ~env.importable => loads = <<>>

(* C9 *)

TreeShown == Inspected /\ Loadable /\ Args.verbose

PosNums ==
    LET ls == SelectSeq(out, LAMBDA l : l.tag = "pos_tag")
    IN [i \in 1..Len(ls) |-> ls[i].num]

Trailers == SelectSeq(out, LAMBDA l : l.tag = "pos_more")

PosPrinted ==
    /\ ~Args.list /\ Loadable
    /\ pc \in {"test", "files", "storage", "returned", "done"}

\* C10: once the POS section is past, a model with a tagger of n labels has
\* printed the first min(10, n) labels in their order, and the trailer
\* exactly when n > 10, with k = n - 10; a model without a tagger has
\* printed no line of the section.
C10_PosTags ==
    PosPrinted =>
        LET n == Len(env.nlp.tag_labels)
        IN IF "tagger" \in Range(env.nlp.pipeline)
           THEN /\ HasLine(out, "pos_hdr")
                /\ PosNums = SubSeq(env.nlp.tag_labels, 1, IF n < 10 THEN n ELSE 10)
                /\ Len(Trailers) = (IF n > 10 THEN 1 ELSE 0)
                /\ n > 10 => /\ Trailers[1].num = n - 10
                             /\ Len(PosNums) + Trailers[1].num = n
                /\ n <= 10 => Len(PosNums) = n
           ELSE /\ ~HasLine(out, "pos_hdr")
                /\ PosNums = <<>>
                /\ Trailers = <<>>

C10_Witness ==
    /\ PosPrinted /\ Done
    /\ Len(env.nlp.tag_labels) = 12
    /\ Len(PosNums) = 10
    /\ PosNums[1] = 12
    /\ Trailers # <<>> /\ Trailers[1].num = 2

====
